---- MODULE Spec2Model ----
(***************************************************************************)
(* The geocaching game of src/unnamed/part_000 (the most advanced          *)
(* iteration of the repository) as a state machine: grid mapper, cache     *)
(* spawner, inventory ledger, persistence and visibility filter, driven by *)
(* the UI handlers (move buttons, geolocation callbacks, cache popups,     *)
(* reset, page reload).                                                    *)
(*                                                                         *)
(* Coordinates are fixed point: one unit is 1e-7 degree, so that a tile    *)
(* (TILE_DEGREES = 0.0001 degree) is 1000 units.  The one place where the  *)
(* IEEE-754 doubles of the program do not behave like the reals on the     *)
(* values the program computes, Math.floor(x / TILE_DEGREES) for x an      *)
(* exact product n * TILE_DEGREES, is modelled by the table InexactTiles.  *)
(***************************************************************************)
EXTENDS Integers, Sequences, FiniteSets, TLC

\* ---------------------------------------------------------------- constants

PLAYER_LAT == 369894938
PLAYER_LNG == -1220627713
TILE_DEGREES == 1000
NEIGHBORHOOD_SIZE == 8
\* luck() returns a float in [0,1); the model keeps two decimals of it.
LuckScale == 100
CACHE_SPAWN_PROBABILITY == 10

\* ------------------------------------------------------------------- bounds

\* At most MaxMoves position updates (button moves and geolocation callbacks)
\* are applied in a behaviour.
MaxMoves == 1

\* A value that may be null is a sequence: NULL, or the value alone.
NULL == <<>>
Some(v) == <<v>>

\* The positions the geolocation provider reports.
GeoPositions ==
  { <<PLAYER_LAT + 9 * TILE_DEGREES + 20, PLAYER_LNG + 300>> }

\* ------------------------------------------------------------ luck (luck.ts)

\* The deterministic hash of luck.ts, a function of the string key alone,
\* in hundredths.  Keys are <<"cache_at", i, j>> for `cache_at_${i},${j}`
\* and <<"coins", i, j>> for `${i},${j},coins`.
LuckTable ==
  ( <<"cache_at", 369899, -1220627>> :> 3 @@ <<"coins", 369899, -1220627>> :> 27 @@
    <<"cache_at", 369903, -1220623>> :> 9 @@ <<"coins", 369903, -1220623>> :> 10 )

luck(key) == IF key \in DOMAIN LuckTable THEN LuckTable[key] ELSE 55

\* ------------------------------------------------------------- grid mapper

\* The n for which the double (n * 0.0001) / 0.0001 is below n, so that
\* Math.floor of it is n - 1 (IEEE-754 binary64, n within 70 tiles of the
\* initial cell on the latitude axis; there is no such n within 70 tiles of
\* the initial cell on the longitude axis).
InexactTiles ==
  { 369824, 369839, 369854, 369869, 369884, 369899, 369914, 369916,
    369929, 369931, 369944, 369946, 369961 }

\* Math.floor(x / TILE_DEGREES)
FloorTile(x) ==
  IF x % TILE_DEGREES = 0 /\ (x \div TILE_DEGREES) \in InexactTiles
    THEN (x \div TILE_DEGREES) - 1
    ELSE x \div TILE_DEGREES

Key(cell) == <<cell.i, cell.j>>

\* The Cell latLngToCell computes before it consults knownTiles.
CellAt(lat, lng) == [i |-> FloorTile(lat), j |-> FloorTile(lng)]

\* A table rebuilt from the cells of the call, the earlier entries dropped.
RegisterAfresh(tiles, cells) ==
  [k \in {Key(c) : c \in cells} |-> [i |-> k[1], j |-> k[2]]]

\* knownTiles after latLngToCell has run for every cell of `cells`.
Register(tiles, cells) ==
  IF \A c \in cells : Key(c) \in DOMAIN tiles
    THEN tiles
    ELSE [k \in DOMAIN tiles \cup {Key(c) : c \in cells} |->
            IF k \in DOMAIN tiles THEN tiles[k] ELSE [i |-> k[1], j |-> k[2]]]

\* The value latLngToCell returns, given the table it has just updated.
latLngToCell(tiles, lat, lng) == Register(tiles, {CellAt(lat, lng)})[Key(CellAt(lat, lng))]

\* ------------------------------------------------------------ cache spawner

\* A coin generator that numbers the coins from 1.
generateCoinsFromOne(cell) ==
  [n \in 1..((luck(<<"coins", cell.i, cell.j>>) * 10) \div LuckScale) |->
     [cell |-> cell, serial |-> n]]

\* generateCoinsForCell: floor(luck(`${i},${j},coins`) * 10) coins, serials
\* 0 .. coinCount - 1, each carrying the cell.
generateCoinsForCell(cell) ==
  LET coinCount == (luck(<<"coins", cell.i, cell.j>>) * 10) \div LuckScale
  IN  [n \in 1..coinCount |-> [cell |-> cell, serial |-> n - 1]]

\* caches is a JavaScript Map: a sequence of entries in insertion order, at
\* most one per key.  An entry is the Cache object: its cell, its coins and
\* whether its marker is a layer of the map.
CacheIndex(cs, key) ==
  IF \E n \in 1..Len(cs) : Key(cs[n].cell) = key
    THEN CHOOSE n \in 1..Len(cs) : Key(cs[n].cell) = key
    ELSE 0

CachesHas(cs, key) == CacheIndex(cs, key) # 0

\* caches.set(key, cache): replaces the value of a present key in place,
\* appends a new key.
CachesSet(cs, cache) ==
  IF CachesHas(cs, Key(cache.cell))
    THEN [cs EXCEPT ![CacheIndex(cs, Key(cache.cell))] = cache]
    ELSE Append(cs, cache)

\* createCache: a cache with the generated coins, its marker added to the map.
createCache(cs, cell) ==
  CachesSet(cs, [cell |-> cell, coins |-> generateCoinsForCell(cell), shown |-> TRUE])

Width == 2 * NEIGHBORHOOD_SIZE + 1

\* The two loops of generateCaches, flattened: step n has the loop variables
\* i = LoopI(n), j = LoopJ(n).
LoopI(n) == ((n - 1) \div Width) - NEIGHBORHOOD_SIZE
LoopJ(n) == ((n - 1) % Width) - NEIGHBORHOOD_SIZE

\* The cell generateCaches computes at step n (lines 254-256).
LoopCell(centerLat, centerLng, n) ==
  CellAt(centerLat + LoopI(n) * TILE_DEGREES, centerLng + LoopJ(n) * TILE_DEGREES)

NeighborhoodCells(centerLat, centerLng) ==
  {LoopCell(centerLat, centerLng, n) : n \in 1..(Width * Width)}

\* A spawn hash keyed by the loop offsets instead of the cell.
SpawnKeyByOffset(cell, i, j) == <<"cache_at", i, j>>

\* The key of the spawn hash, `cache_at_${cell.i},${cell.j}` (line 264), with
\* the loop variables i and j in scope.
SpawnKey(cell, i, j) == <<"cache_at", cell.i, cell.j>>

SpawnHashLow(cell, i, j) == luck(SpawnKey(cell, i, j)) < CACHE_SPAWN_PROBABILITY

\* A spawn condition that does not look for a cache already at the cell.
ShouldSpawnOverExisting(cs, cell, i, j) == SpawnHashLow(cell, i, j)

\* The condition under which generateCaches creates a cache (lines 262-265).
ShouldSpawn(cs, cell, i, j) ==
  /\ ~CachesHas(cs, Key(cell))
  /\ SpawnHashLow(cell, i, j)

RECURSIVE SpawnLoop(_, _, _, _, _)
SpawnLoop(cs, centerLat, centerLng, steps, m) ==
  IF m > Len(steps) THEN cs
  ELSE LET n == steps[m]
           cell == LoopCell(centerLat, centerLng, n)
       IN  SpawnLoop(IF ShouldSpawn(cs, cell, LoopI(n), LoopJ(n))
                       THEN createCache(cs, cell)
                       ELSE cs,
                     centerLat, centerLng, steps, m + 1)

\* generateCaches: the caches table after the loops.  The steps whose hash
\* is not below the threshold change nothing and are left out beforehand.
generateCaches(cs, centerLat, centerLng) ==
  SpawnLoop(cs, centerLat, centerLng,
            SelectSeq([n \in 1..(Width * Width) |-> n],
                      LAMBDA n : SpawnHashLow(LoopCell(centerLat, centerLng, n),
                                              LoopI(n), LoopJ(n))),
            1)

\* knownTiles after generateCaches: every visited cell went through latLngToCell.
generateCachesTiles(tiles, centerLat, centerLng) ==
  Register(tiles, NeighborhoodCells(centerLat, centerLng))

\* generateCaches(PLAYER_LAT, PLAYER_LNG) on an empty table, as loadGameState
\* without a document and resetGameState call it, and the cells it visits.
InitialCaches == generateCaches(<<>>, PLAYER_LAT, PLAYER_LNG)
InitialCells == NeighborhoodCells(PLAYER_LAT, PLAYER_LNG)

\* -------------------------------------------------------- visibility filter

\* updateVisibleCaches: a marker is on the map iff the distance between
\* (cell.i * TILE_DEGREES, cell.j * TILE_DEGREES) and the player is at most
\* NEIGHBORHOOD_SIZE * TILE_DEGREES (compared squared).
InRange(cell, lat, lng) ==
  LET dLat == cell.i * TILE_DEGREES - lat
      dLng == cell.j * TILE_DEGREES - lng
  IN  dLat * dLat + dLng * dLng
        <= (NEIGHBORHOOD_SIZE * TILE_DEGREES) * (NEIGHBORHOOD_SIZE * TILE_DEGREES)

\* A filter that adds the markers in range and removes none.
updateVisibleCachesShowOnly(cs, lat, lng) ==
  [n \in 1..Len(cs) |-> [cs[n] EXCEPT !.shown = cs[n].shown \/ InRange(cs[n].cell, lat, lng)]]

updateVisibleCaches(cs, lat, lng) ==
  [n \in 1..Len(cs) |-> [cs[n] EXCEPT !.shown = InRange(cs[n].cell, lat, lng)]]

\* -------------------------------------------------------------- persistence

\* A string of the store is either the JSON text of a value or text that
\* JSON.parse rejects.  Numbers, arrays and plain objects of numbers survive
\* stringify/parse unchanged; object identity does not and is not modelled.
JSONstringify(v) == [text |-> "json", value |-> v]
Unparsable == [text |-> "garbage"]
JSONparses(str) == str.text = "json"
JSONparse(str) == str.value

toMemento(coins) == JSONstringify(coins)
fromMemento(memento) == JSONparse(memento)

\* The document saveGameState builds.
SavedState(lat, lng, coins, history, cs) ==
  [ playerLat |-> lat,
    playerLng |-> lng,
    playerCoins |-> coins,
    locationHistory |-> history,
    caches |-> [n \in 1..Len(cs) |->
                  [ lat |-> cs[n].cell.i * TILE_DEGREES,
                    lng |-> cs[n].cell.j * TILE_DEGREES,
                    memento |-> toMemento(cs[n].coins) ]] ]

saveGameState(lat, lng, coins, history, cs) ==
  JSONstringify(SavedState(lat, lng, coins, history, cs))

\* The forEach of loadGameState: one cache per saved entry, at the cell
\* latLngToCell gives for the saved position, its coins from the memento,
\* its marker not yet on the map.
RECURSIVE RestoreLoop(_, _, _)
RestoreLoop(cs, saved, n) ==
  IF n > Len(saved) THEN cs
  ELSE RestoreLoop(
         CachesSet(cs, [ cell |-> CellAt(saved[n].lat, saved[n].lng),
                         coins |-> fromMemento(saved[n].memento),
                         shown |-> FALSE ]),
         saved, n + 1)

RestoreTiles(tiles, saved) ==
  Register(tiles, {CellAt(saved[n].lat, saved[n].lng) : n \in 1..Len(saved)})

\* The module state when the page's script starts (lines 46-55, 87-91).
ModuleStart ==
  [ playerLat |-> PLAYER_LAT,
    playerLng |-> PLAYER_LNG,
    playerCoins |-> <<>>,
    locationHistory |-> <<>>,
    caches |-> <<>>,
    knownTiles |-> <<>>,
    movementHistory |-> NULL,
    playerMarker |-> <<PLAYER_LAT, PLAYER_LNG>>,
    running |-> FALSE,
    restored |-> FALSE ]

\* loadGameState on a stored document, from the module's initial state.
\* JSON.parse throws on text it rejects, and state.caches.forEach throws when
\* the document has no caches: the exception ends the script, with whatever
\* was assigned before it and no handler registered.
LoadSaved(str) ==
  IF ~JSONparses(str) THEN ModuleStart
  ELSE LET state == JSONparse(str)
           partial == [ModuleStart EXCEPT
                         !.playerLat = state.playerLat,
                         !.playerLng = state.playerLng,
                         !.playerCoins = state.playerCoins,
                         !.locationHistory = state.locationHistory]
       IN  IF "caches" \notin DOMAIN state THEN partial
           ELSE [partial EXCEPT
                   !.caches = updateVisibleCaches(RestoreLoop(<<>>, state.caches, 1),
                                                  state.playerLat, state.playerLng),
                   !.knownTiles = RestoreTiles(<<>>, state.caches),
                   !.movementHistory = Some(state.locationHistory),
                   !.playerMarker = <<state.playerLat, state.playerLng>>,
                   !.running = TRUE,
                   !.restored = TRUE]

\* loadGameState without a stored document: the initial neighbourhood is spawned.
LoadFresh ==
  [ModuleStart EXCEPT
     !.caches = InitialCaches,
     !.knownTiles = Register(<<>>, InitialCells),
     !.running = TRUE]

loadGameState(item) == IF item # NULL THEN LoadSaved(item[1]) ELSE LoadFresh

\* Module initialisation (lines 460-462): loadGameState, then
\* updateInventoryDisplay and updateVisibleCaches when it returned.
Boot(item) ==
  LET s == loadGameState(item)
  IN  IF s.running
        THEN [s EXCEPT !.caches = updateVisibleCaches(s.caches, s.playerLat, s.playerLng)]
        ELSE s

\* -------------------------------------------------------------------- state

VARIABLES
  playerLat, playerLng,   \* the player's position
  playerCoins,            \* the player's inventory, a sequence of coins
  locationHistory,        \* the positions of the movement history
  caches,                 \* the caches Map
  knownTiles,             \* the knownTiles Map: key -> Cell
  movementHistory,        \* the polyline drawn on the map, or NULL
  playerMarker,           \* the position the player marker shows
  locationWatcher,        \* the watch id the script holds, or NULL
  watches,                \* the watch ids the geolocation provider serves
  store,                  \* localStorage item "gameState", or NULL
  orphanMarkers,          \* keys of markers on the map whose cache left the table
  running,                \* the script ran to its end: the handlers are registered
  restored,               \* the caches table was filled by loadGameState
  moves,                  \* the position updates applied so far
  locationErrorLogged     \* console.error has reported a location error

vars ==
  << playerLat, playerLng, playerCoins, locationHistory, caches, knownTiles,
     movementHistory, playerMarker, locationWatcher, watches, store,
     orphanMarkers, running, restored, moves, locationErrorLogged >>

\* The page after its script has run against the stored item.
Started(item) ==
  LET s == Boot(item)
  IN  /\ playerLat = s.playerLat
      /\ playerLng = s.playerLng
      /\ playerCoins = s.playerCoins
      /\ locationHistory = s.locationHistory
      /\ caches = s.caches
      /\ knownTiles = s.knownTiles
      /\ movementHistory = s.movementHistory
      /\ playerMarker = s.playerMarker
      /\ running = s.running
      /\ restored = s.restored
      /\ locationWatcher = NULL
      /\ watches = {}
      /\ orphanMarkers = {}
      /\ locationErrorLogged = FALSE

Init ==
  /\ store = NULL
  /\ moves = 0
  /\ Started(NULL)

\* ----------------------------------------------------------------- handlers

\* A position update that saves the state before it spawns the caches.
updatePlayerPositionSavesFirst(lat, lng) ==
  LET history == Append(locationHistory, <<lat, lng>>)
      cs == updateVisibleCaches(generateCaches(caches, lat, lng), lat, lng)
  IN  /\ playerLat' = lat
      /\ playerLng' = lng
      /\ playerMarker' = <<lat, lng>>
      /\ locationHistory' = history
      /\ movementHistory' = Some(history)
      /\ caches' = cs
      /\ knownTiles' = generateCachesTiles(knownTiles, lat, lng)
      /\ store' = Some(saveGameState(lat, lng, playerCoins, history, caches))
      /\ moves' = moves + 1
      /\ UNCHANGED <<playerCoins, locationWatcher, watches, orphanMarkers, running, restored,
                     locationErrorLogged>>

\* updatePlayerPosition (lines 360-370).
updatePlayerPosition(lat, lng) ==
  LET history == Append(locationHistory, <<lat, lng>>)
      cs == updateVisibleCaches(generateCaches(caches, lat, lng), lat, lng)
  IN  /\ playerLat' = lat
      /\ playerLng' = lng
      /\ playerMarker' = <<lat, lng>>
      /\ locationHistory' = history
      /\ movementHistory' = Some(history)
      /\ caches' = cs
      /\ knownTiles' = generateCachesTiles(knownTiles, lat, lng)
      /\ store' = Some(saveGameState(lat, lng, playerCoins, history, cs))
      /\ moves' = moves + 1
      /\ UNCHANGED <<playerCoins, locationWatcher, watches, orphanMarkers, running, restored,
                     locationErrorLogged>>

\* movePlayer, from the four move buttons (lines 441-443, 465-480).
movePlayer(dLat, dLng) ==
  /\ running
  /\ moves < MaxMoves
  /\ updatePlayerPosition(playerLat + dLat, playerLng + dLng)

moveNorth == movePlayer(TILE_DEGREES, 0)
moveSouth == movePlayer(-TILE_DEGREES, 0)
moveWest == movePlayer(0, -TILE_DEGREES)
moveEast == movePlayer(0, TILE_DEGREES)

\* The keys whose marker is a layer of the map: their popups can be clicked.
MarkerKeys == {Key(caches[n].cell) : n \in {m \in 1..Len(caches) : caches[m].shown}}
                \cup orphanMarkers

\* A collect that copies the coins and leaves them in the cache.
CollectedKeepsCache(coins, cs, cell) ==
  LET n == CacheIndex(cs, Key(cell))
  IN  IF n # 0 /\ Len(cs[n].coins) > 0
        THEN [acted |-> TRUE, playerCoins |-> coins \o cs[n].coins, caches |-> cs]
        ELSE [acted |-> FALSE, playerCoins |-> coins, caches |-> cs]

\* A collect that takes one coin at a time.
CollectedOneCoin(coins, cs, cell) ==
  LET n == CacheIndex(cs, Key(cell))
  IN  IF n # 0 /\ Len(cs[n].coins) > 0
        THEN [ acted |-> TRUE,
               playerCoins |-> Append(coins, Head(cs[n].coins)),
               caches |-> [cs EXCEPT ![n].coins = Tail(cs[n].coins)] ]
        ELSE [acted |-> FALSE, playerCoins |-> coins, caches |-> cs]

\* A collect that deletes the cache it has emptied from the table.
CollectedRemovesCache(coins, cs, cell) ==
  LET n == CacheIndex(cs, Key(cell))
  IN  IF n # 0 /\ Len(cs[n].coins) > 0
        THEN [ acted |-> TRUE,
               playerCoins |-> coins \o cs[n].coins,
               caches |-> SubSeq(cs, 1, n - 1) \o SubSeq(cs, n + 1, Len(cs)) ]
        ELSE [acted |-> FALSE, playerCoins |-> coins, caches |-> cs]

\* What collectCoins does to the inventory and the table (lines 201-205):
\* the coins of the cache at the cell go to the end of the inventory.
Collected(coins, cs, cell) ==
  LET n == CacheIndex(cs, Key(cell))
  IN  IF n # 0 /\ Len(cs[n].coins) > 0
        THEN [ acted |-> TRUE,
               playerCoins |-> coins \o cs[n].coins,
               caches |-> [cs EXCEPT ![n].coins = <<>>] ]
        ELSE [acted |-> FALSE, playerCoins |-> coins, caches |-> cs]

\* A deposit that gives one coin at a time.
DepositedOneCoin(coins, cs, cell) ==
  LET n == CacheIndex(cs, Key(cell))
  IN  IF n # 0 /\ Len(coins) > 0
        THEN [ acted |-> TRUE,
               playerCoins |-> Tail(coins),
               caches |-> [cs EXCEPT ![n].coins = Append(cs[n].coins, Head(coins))] ]
        ELSE [acted |-> FALSE, playerCoins |-> coins, caches |-> cs]

\* A deposit that replaces the coins of the cache by the inventory.
DepositedOverwrites(coins, cs, cell) ==
  LET n == CacheIndex(cs, Key(cell))
  IN  IF n # 0 /\ Len(coins) > 0
        THEN [ acted |-> TRUE,
               playerCoins |-> <<>>,
               caches |-> [cs EXCEPT ![n].coins = coins] ]
        ELSE [acted |-> FALSE, playerCoins |-> coins, caches |-> cs]

\* What depositCoins does to the inventory and the table (lines 214-218).
Deposited(coins, cs, cell) ==
  LET n == CacheIndex(cs, Key(cell))
  IN  IF n # 0 /\ Len(coins) > 0
        THEN [ acted |-> TRUE,
               playerCoins |-> <<>>,
               caches |-> [cs EXCEPT ![n].coins = cs[n].coins \o coins] ]
        ELSE [acted |-> FALSE, playerCoins |-> coins, caches |-> cs]

\* Handlers that save the state whether or not the guard held.
TransferAlwaysSaves(r) ==
  /\ playerCoins' = r.playerCoins
  /\ caches' = r.caches
  /\ store' = Some(saveGameState(playerLat, playerLng, r.playerCoins,
                                 locationHistory, r.caches))
  /\ UNCHANGED <<playerLat, playerLng, locationHistory, knownTiles,
                 movementHistory, playerMarker, locationWatcher, watches,
                 orphanMarkers, running, restored, moves, locationErrorLogged>>

\* The rest of both handlers: the state is saved when the guard held.
Transfer(r) ==
  IF r.acted
    THEN /\ playerCoins' = r.playerCoins
         /\ caches' = r.caches
         /\ store' = Some(saveGameState(playerLat, playerLng, r.playerCoins,
                                        locationHistory, r.caches))
         /\ UNCHANGED <<playerLat, playerLng, locationHistory, knownTiles,
                        movementHistory, playerMarker, locationWatcher, watches,
                        orphanMarkers, running, restored, moves, locationErrorLogged>>
    ELSE UNCHANGED vars

\* collectCoins (lines 200-210).
collectCoins(cell) == Transfer(Collected(playerCoins, caches, cell))

\* depositCoins (lines 213-223).
depositCoins(cell) == Transfer(Deposited(playerCoins, caches, cell))

\* The popup buttons of a marker on the map (lines 187-194).
CollectClick == \E k \in MarkerKeys : running /\ collectCoins([i |-> k[1], j |-> k[2]])
DepositClick == \E k \in MarkerKeys : running /\ depositCoins([i |-> k[1], j |-> k[2]])

\* startLocationTracking (lines 373-401), the browser having a geolocation
\* provider: the watch is registered and its id kept.
startLocationTracking ==
  /\ locationWatcher' = Some(1)
  /\ watches' = watches \cup {1}

\* A stop that forgets the watch id without clearing the watch.
stopWithoutClearWatch ==
  /\ locationWatcher' = NULL
  /\ UNCHANGED watches

\* A stop that clears the watch and keeps its id in locationWatcher.
stopKeepsWatcherId ==
  /\ watches' = IF locationWatcher # NULL THEN watches \ {locationWatcher[1]} ELSE watches
  /\ UNCHANGED locationWatcher

\* stopLocationTracking (lines 403-414).
stopLocationTracking ==
  IF locationWatcher # NULL
    THEN /\ watches' = watches \ {locationWatcher[1]}
         /\ locationWatcher' = NULL
    ELSE UNCHANGED <<locationWatcher, watches>>

\* The click handler of the geolocate button (lines 483-489).
GeolocateClick ==
  /\ running
  /\ IF locationWatcher = NULL THEN startLocationTracking ELSE stopLocationTracking
  /\ UNCHANGED <<playerLat, playerLng, playerCoins, locationHistory, caches, knownTiles,
                 movementHistory, playerMarker, store, orphanMarkers, running, restored,
                 moves, locationErrorLogged>>

\* The position callback of watchPosition (lines 376-381): the provider calls
\* it for a watch it serves.
PositionCallback ==
  /\ watches # {}
  /\ moves < MaxMoves
  /\ \E pos \in GeoPositions : updatePlayerPosition(pos[1], pos[2])

\* The error callback of watchPosition (lines 382-385): the error is logged
\* and tracking stopped.
ErrorCallback ==
  /\ watches # {}
  /\ stopLocationTracking
  /\ UNCHANGED <<playerLat, playerLng, playerCoins, locationHistory, caches, knownTiles,
                 movementHistory, playerMarker, store, orphanMarkers, running, restored,
                 moves>>
  /\ locationErrorLogged' = TRUE

\* A reset that spawns the initial neighbourhood without clearing the table.
ResetKeepsCaches ==
  /\ running
  /\ store' = NULL
  /\ playerLat' = PLAYER_LAT
  /\ playerLng' = PLAYER_LNG
  /\ playerCoins' = <<>>
  /\ locationHistory' = <<>>
  /\ orphanMarkers' = orphanMarkers
  /\ movementHistory' = NULL
  /\ stopLocationTracking
  /\ caches' = updateVisibleCaches(generateCaches(caches, PLAYER_LAT, PLAYER_LNG),
                                   PLAYER_LAT, PLAYER_LNG)
  /\ knownTiles' = Register(knownTiles, InitialCells)
  /\ restored' = FALSE
  /\ UNCHANGED <<playerMarker, running, moves, locationErrorLogged>>

\* resetGameState, the user confirming the prompt (lines 417-438).  The
\* markers of the cleared caches stay on the map, the player marker is not
\* moved.
ResetConfirmed ==
  /\ running
  /\ store' = NULL
  /\ playerLat' = PLAYER_LAT
  /\ playerLng' = PLAYER_LNG
  /\ playerCoins' = <<>>
  /\ locationHistory' = <<>>
  /\ orphanMarkers' = MarkerKeys
  /\ movementHistory' = NULL
  /\ stopLocationTracking
  /\ caches' = updateVisibleCaches(InitialCaches, PLAYER_LAT, PLAYER_LNG)
  /\ knownTiles' = Register(knownTiles, InitialCells)
  /\ restored' = FALSE
  /\ UNCHANGED <<playerMarker, running, moves, locationErrorLogged>>

\* A reset that clears the state without regard to the answer.
ResetUnconfirmed ==
  /\ running
  /\ store' = NULL
  /\ playerLat' = PLAYER_LAT
  /\ playerLng' = PLAYER_LNG
  /\ playerCoins' = <<>>
  /\ locationHistory' = <<>>
  /\ orphanMarkers' = MarkerKeys
  /\ movementHistory' = NULL
  /\ stopLocationTracking
  /\ caches' = updateVisibleCaches(InitialCaches, PLAYER_LAT, PLAYER_LNG)
  /\ knownTiles' = Register(knownTiles, InitialCells)
  /\ restored' = FALSE
  /\ UNCHANGED <<playerMarker, running, moves, locationErrorLogged>>

\* resetGameState, the user declining the prompt.
ResetDeclined ==
  /\ running
  /\ UNCHANGED vars

\* The user reloads the page: a new script instance starts against the store.
Reload ==
  LET s == Boot(store)
  IN  /\ playerLat' = s.playerLat
      /\ playerLng' = s.playerLng
      /\ playerCoins' = s.playerCoins
      /\ locationHistory' = s.locationHistory
      /\ caches' = s.caches
      /\ knownTiles' = s.knownTiles
      /\ movementHistory' = s.movementHistory
      /\ playerMarker' = s.playerMarker
      /\ running' = s.running
      /\ restored' = s.restored
      /\ locationWatcher' = NULL
      /\ watches' = {}
      /\ orphanMarkers' = {}
      /\ locationErrorLogged' = FALSE
      /\ UNCHANGED <<store, moves>>

Next ==
  \/ moveNorth
  \/ moveSouth
  \/ moveWest
  \/ moveEast
  \/ CollectClick
  \/ DepositClick
  \/ GeolocateClick
  \/ PositionCallback
  \/ ErrorCallback
  \/ ResetConfirmed
  \/ ResetDeclined
  \/ Reload

Spec == Init /\ [][Next]_vars

\* The strings a page can find under "gameState" when it starts: none, text
\* that is no JSON, a document without its caches field.
StartupStores ==
  { NULL,
    Some(Unparsable),
    Some(JSONstringify([ playerLat |-> PLAYER_LAT + TILE_DEGREES,
                    playerLng |-> PLAYER_LNG,
                    playerCoins |-> generateCoinsForCell([i |-> 369899, j |-> -1220627]),
                    locationHistory |-> <<<<PLAYER_LAT + TILE_DEGREES, PLAYER_LNG>>>> ])) }

InitStartup ==
  /\ store \in StartupStores
  /\ moves = 0
  /\ Started(store)

SpecStartup == InitStartup /\ [][Next]_vars

\* ------------------------------------------------------------------- claims

RECURSIVE CacheCoins(_, _)
\* The coins of the caches cs[n..], concatenated in table order.
CacheCoins(cs, n) == IF n > Len(cs) THEN <<>> ELSE cs[n].coins \o CacheCoins(cs, n + 1)

\* Every coin held anywhere: the inventory, then the caches.
AllCoins == playerCoins \o CacheCoins(caches, 1)
TotalCoins == Len(AllCoins)

GeneratedAt(n) == generateCoinsForCell(caches[n].cell)

\* C1: a collectCoins or depositCoins call, on a cell with or without a
\* cache, leaves the number of coins in the system (inventory plus all
\* caches) as it was; hence so does any sequence of such calls.
C1_CoinCountConserved ==
  [][(CollectClick \/ DepositClick) => TotalCoins' = TotalCoins]_vars

\* Coins were collected from two caches and deposited together in one.
C1_Witness ==
  /\ playerCoins = <<>>
  /\ ~restored
  /\ \E n \in 1..Len(caches) :
       /\ Len(caches[n].coins) = 3
       /\ \E x \in 1..3 : caches[n].coins[x].cell # caches[n].cell

\* C2: no coin identity (cell, serial) appears twice across the inventory
\* and the coin lists of all caches.
C2_NoCoinTwice ==
  \A x, y \in 1..Len(AllCoins) : x # y => AllCoins[x] # AllCoins[y]

\* C3: saving the current state and loading it on a freshly started page
\* gives the same position, inventory and history and, for every cache of
\* the table, a cache at the same cell with the same coins.
C3_SaveLoadRoundTrip ==
  running =>
    LET s == Boot(Some(saveGameState(playerLat, playerLng, playerCoins,
                                     locationHistory, caches)))
    IN  /\ s.playerLat = playerLat
        /\ s.playerLng = playerLng
        /\ s.playerCoins = playerCoins
        /\ s.locationHistory = locationHistory
        /\ \A n \in 1..Len(caches) :
             \E m \in 1..Len(s.caches) :
               /\ s.caches[m].cell = caches[n].cell
               /\ s.caches[m].coins = caches[n].coins

\* The stored item is text JSON.parse rejects or a document without caches.
Malformed(item) ==
  item # NULL /\ (~JSONparses(item[1]) \/ "caches" \notin DOMAIN JSONparse(item[1]))

\* The fresh world: the initial position, nothing held, no history, the
\* caches of the initial neighbourhood with their generated coins.
FreshWorld ==
  /\ playerLat = PLAYER_LAT
  /\ playerLng = PLAYER_LNG
  /\ playerCoins = <<>>
  /\ locationHistory = <<>>
  /\ caches = updateVisibleCaches(InitialCaches, PLAYER_LAT, PLAYER_LNG)

\* C4: a page that has just started against an absent or malformed document
\* is in the fresh world, nothing of the document restored.
C4_MalformedIsNoSave ==
  (Started(store) /\ (store = NULL \/ Malformed(store))) => FreshWorld

\* C5: collectCoins on a cell whose cache holds coins empties that cache,
\* appends its coins in order to the inventory and changes no other cache.
C5_CollectIsBulkTransfer ==
  [][\A n \in 1..Len(caches) :
       (running /\ Len(caches[n].coins) > 0 /\ collectCoins(caches[n].cell)) =>
         /\ playerCoins' = playerCoins \o caches[n].coins
         /\ Len(caches') = Len(caches)
         /\ caches'[n].coins = <<>>
         /\ \A m \in 1..Len(caches) :
              /\ caches'[m].cell = caches[m].cell
              /\ m # n => caches'[m].coins = caches[m].coins]_vars

\* A cache is empty and its two generated coins end the inventory, in
\* order, behind the coin collected before them; the table has other caches.
C5_Witness ==
  /\ ~restored
  /\ Len(caches) > 1
  /\ \E n \in 1..Len(caches) :
       /\ caches[n].coins = <<>>
       /\ Len(GeneratedAt(n)) = 2
       /\ Len(playerCoins) = 3
       /\ SubSeq(playerCoins, 2, 3) = GeneratedAt(n)

\* C6: depositCoins on a cell with a cache, the inventory not empty, empties
\* the inventory, appends its coins in order to that cache's coins and
\* changes no other cache.
C6_DepositIsBulkTransfer ==
  [][\A n \in 1..Len(caches) :
       (running /\ Len(playerCoins) > 0 /\ depositCoins(caches[n].cell)) =>
         /\ playerCoins' = <<>>
         /\ Len(caches') = Len(caches)
         /\ caches'[n].coins = caches[n].coins \o playerCoins
         /\ \A m \in 1..Len(caches) :
              /\ caches'[m].cell = caches[m].cell
              /\ m # n => caches'[m].coins = caches[m].coins]_vars

\* The inventory is empty and a cache holds its own generated coin followed
\* by the two coins of another cell, while another cache still holds coins.
C6_Witness ==
  /\ ~restored
  /\ playerCoins = <<>>
  /\ \E n \in 1..Len(caches) :
       /\ Len(GeneratedAt(n)) = 1
       /\ Len(caches[n].coins) = 3
       /\ SubSeq(caches[n].coins, 1, 1) = GeneratedAt(n)
       /\ caches[n].coins[2].cell # caches[n].cell
       /\ caches[n].coins[3].serial = caches[n].coins[2].serial + 1

\* collectCoins(cell) immediately followed by depositCoins(cell).
CollectThenDeposit(coins, cs, cell) ==
  Deposited(Collected(coins, cs, cell).playerCoins, Collected(coins, cs, cell).caches, cell)

RoundTripRestores(n) ==
  /\ CollectThenDeposit(playerCoins, caches, caches[n].cell).caches[n].coins = caches[n].coins
  /\ CollectThenDeposit(playerCoins, caches, caches[n].cell).playerCoins = playerCoins

\* C7 as claimed: collect then deposit on one cache gives the cache the coins
\* it held and the player the inventory they held.
C7_RoundTripAlways == \A n \in 1..Len(caches) : RoundTripRestores(n)

\* C7 as amended: it does so when the inventory is empty before the collect.
C7_RoundTripFromEmptyInventory ==
  playerCoins = <<>> => \A n \in 1..Len(caches) : RoundTripRestores(n)

\* The caches hold their generated coins again and the inventory is empty,
\* after coins were transferred (the state was saved) in a fresh world.
C7_Witness ==
  /\ running /\ ~restored /\ moves = 0
  /\ store # NULL
  /\ playerCoins = <<>>
  /\ \A n \in 1..Len(caches) : caches[n].coins = GeneratedAt(n)
  /\ \E n \in 1..Len(caches) : caches[n].shown /\ Len(caches[n].coins) = 2

\* C8: collectCoins where there is no cache or the cache is empty, and
\* depositCoins where there is no cache or the inventory is empty, change
\* neither inventory, caches, position, history nor the stored document.
C8_GuardedNoOps ==
  [][\A k \in MarkerKeys :
       LET cell == [i |-> k[1], j |-> k[2]]
           n == CacheIndex(caches, k)
       IN  /\ (running /\ collectCoins(cell) /\ (n = 0 \/ caches[n].coins = <<>>)) =>
                UNCHANGED <<playerCoins, caches, playerLat, playerLng,
                            locationHistory, store>>
           /\ (running /\ depositCoins(cell) /\ (n = 0 \/ playerCoins = <<>>)) =>
                UNCHANGED <<playerCoins, caches, playerLat, playerLng,
                            locationHistory, store>>]_vars

\* A marker without a cache and the marker of an empty cache are on the
\* map: collect and deposit on the first and collect on the second are made
\* with their guards false.
C8_Witness ==
  /\ running
  /\ \E k \in MarkerKeys : ~CachesHas(caches, k)
  /\ \E n \in 1..Len(caches) : caches[n].shown /\ caches[n].coins = <<>>

\* The keys of the square neighbourhood of radius NEIGHBORHOOD_SIZE around
\* the cell of a centre point.
NeighborhoodKeys(centerLat, centerLng) ==
  { <<CellAt(centerLat, centerLng).i + di, CellAt(centerLat, centerLng).j + dj>> :
      di \in (-NEIGHBORHOOD_SIZE)..NEIGHBORHOOD_SIZE,
      dj \in (-NEIGHBORHOOD_SIZE)..NEIGHBORHOOD_SIZE }

SpawnHashBelow(k) == luck(<<"cache_at", k[1], k[2]>>) < CACHE_SPAWN_PROBABILITY

\* generateCaches took the table from `before` to `after` for the centre:
\* the caches of `before` are there with their coins, and the new caches are
\* those of the neighbourhood cells without a cache whose hash is low.
SpawnRule(before, after, centerLat, centerLng) ==
  /\ Len(after) >= Len(before)
  /\ \A n \in 1..Len(before) :
       /\ after[n].cell = before[n].cell
       /\ after[n].coins = before[n].coins
  /\ \A k \in NeighborhoodKeys(centerLat, centerLng) :
       (SpawnHashBelow(k) /\ ~CachesHas(before, k)) <=>
         (\E n \in (Len(before) + 1)..Len(after) : Key(after[n].cell) = k)
  /\ \A n \in (Len(before) + 1)..Len(after) :
       Key(after[n].cell) \in NeighborhoodKeys(centerLat, centerLng)

\* C9: whenever generateCaches runs (a position update, a confirmed reset,
\* a start without a document), a cache is created at a cell of the square
\* neighbourhood iff its spawn hash is below CACHE_SPAWN_PROBABILITY and the
\* cell has no cache; caches that exist keep their coins; no cache is
\* created outside the neighbourhood.
C9_SpawnRule ==
  [][/\ (moves' = moves + 1) => SpawnRule(caches, caches', playerLat', playerLng')
     /\ ResetConfirmed => SpawnRule(<<>>, caches', PLAYER_LAT, PLAYER_LNG)
     /\ (store = NULL /\ Reload) => SpawnRule(<<>>, caches', PLAYER_LAT, PLAYER_LNG)
    ]_vars

InitialKeys == NeighborhoodKeys(PLAYER_LAT, PLAYER_LNG)

\* A position update spawned a cache outside the initial neighbourhood while
\* a cache emptied before the update stayed empty.
C9_Witness ==
  /\ ~restored
  /\ moves = 1 /\ Len(locationHistory) = 1
  /\ \E n \in 1..Len(caches) : Key(caches[n].cell) \notin InitialKeys
  /\ \E n \in 1..Len(caches) : caches[n].coins = <<>> /\ GeneratedAt(n) # <<>>

\* The keys that have been in the player's neighbourhood since the world
\* was generated from nothing (a start without a document, a reset).
SeenKeys ==
  InitialKeys \cup
    UNION {NeighborhoodKeys(locationHistory[n][1], locationHistory[n][2]) :
             n \in 1..Len(locationHistory)}

CoinsOfCell(k) == {x \in 1..Len(AllCoins) : Key(AllCoins[x].cell) = k}

\* C10: in a world generated from an empty store, whatever the moves, a cell
\* that has been in the player's neighbourhood has a cache iff its spawn
\* hash is low, and the coins that cache was spawned with are those
\* generateCoinsForCell gives for the cell, each in the world once: both
\* are functions of the cell alone, so two such runs agree on every cell
\* both have seen.
C10_DeterministicWorld ==
  ~restored =>
    \A k \in SeenKeys :
      /\ CachesHas(caches, k) <=> SpawnHashBelow(k)
      /\ CachesHas(caches, k) =>
           /\ Cardinality(CoinsOfCell(k)) = Len(generateCoinsForCell([i |-> k[1], j |-> k[2]]))
           /\ \A x \in CoinsOfCell(k) :
                \E y \in 1..Len(generateCoinsForCell([i |-> k[1], j |-> k[2]])) :
                  AllCoins[x] = generateCoinsForCell([i |-> k[1], j |-> k[2]])[y]

\* The player walked in a world generated from nothing, a cache outside the
\* initial neighbourhood was spawned, and coins have changed hands.
C10_Witness ==
  /\ ~restored
  /\ Len(locationHistory) = 1
  /\ \E n \in 1..Len(caches) : Key(caches[n].cell) \notin InitialKeys
  /\ playerCoins # <<>>

\* Every cell that has a cache before the step has one after it.
CachesKept == \A n \in 1..Len(caches) : CachesHas(caches', Key(caches[n].cell))

\* C11 as claimed: within a session (no page reload) a cache that exists
\* exists after every operation, a confirmed reset included.
C11_CachePermanent == [][~Reload => CachesKept]_vars

\* C11 as amended: it exists after every operation other than a confirmed
\* reset (moves, geolocation updates, collect, deposit, geolocate toggle,
\* provider error, declined reset).
C11_CachePermanentUntilReset == [][(~Reload /\ ~ResetConfirmed) => CachesKept]_vars

\* A cache spawned by a position update outside the initial neighbourhood is
\* in the table, emptied by a collect made after the update.
C11_Witness ==
  /\ ~restored
  /\ moves = 1
  /\ \E n \in 1..Len(caches) :
       /\ Key(caches[n].cell) \notin InitialKeys
       /\ caches[n].coins = <<>>
       /\ GeneratedAt(n) # <<>>
       /\ playerCoins = GeneratedAt(n)

\* The coin list a cache is spawned with: floor(coin hash * 10) coins, fewer
\* than ten, with serials 0, 1, ... in order, each carrying the cache's cell.
SpawnedCoins(c) ==
  LET n == (luck(<<"coins", c.cell.i, c.cell.j>>) * 10) \div LuckScale
  IN  /\ n \in 0..9
      /\ Len(c.coins) = n
      /\ \A x \in 1..n : c.coins[x] = [cell |-> c.cell, serial |-> x - 1]

\* C12: every cache a step spawns (the caches a position update adds to the
\* table, all caches after a confirmed reset or a start without a document)
\* has, right after the step, floor(coinHash(cell) * 10) coins, 0 <= n < 10,
\* with serials 0 .. n-1 in order and the cache's own cell.
C12_SpawnedCoinList ==
  [][/\ (moves' = moves + 1) =>
          \A n \in (Len(caches) + 1)..Len(caches') : SpawnedCoins(caches'[n])
     /\ (ResetConfirmed \/ (store = NULL /\ Reload)) =>
          \A n \in 1..Len(caches') : SpawnedCoins(caches'[n])
    ]_vars

\* A position update has just spawned a cache outside the initial
\* neighbourhood: it holds one coin, the player holds the two coins of the
\* cache collected before the update.
C12_Witness ==
  /\ ~restored
  /\ moves = 1
  /\ Len(playerCoins) = 2
  /\ \E n \in 1..Len(caches) :
       /\ Key(caches[n].cell) \notin InitialKeys
       /\ Len(caches[n].coins) = 1
       /\ caches[n].coins[1].cell = caches[n].cell

\* The squared distance, in squared units, between a cell's corner and the
\* player.
Distance2(cell) ==
  (cell.i * TILE_DEGREES - playerLat) * (cell.i * TILE_DEGREES - playerLat)
    + (cell.j * TILE_DEGREES - playerLng) * (cell.j * TILE_DEGREES - playerLng)

Radius2 == (NEIGHBORHOOD_SIZE * TILE_DEGREES) * (NEIGHBORHOOD_SIZE * TILE_DEGREES)

\* C13: between handlers (after the start, every move, every geolocation
\* update and every reset) the marker of each cache of the table is on the
\* map iff the distance between its cell and the player is at most
\* NEIGHBORHOOD_SIZE tiles.
C13_VisibilityFilter ==
  running =>
    \A n \in 1..Len(caches) : caches[n].shown <=> (Distance2(caches[n].cell) <= Radius2)

\* A move has spawned a cache in the square neighbourhood farther than the
\* radius: its marker is off the map while the marker of a nearer cache is on.
C13_Witness ==
  /\ running
  /\ moves = 1
  /\ \E n \in 1..Len(caches) : ~caches[n].shown /\ Distance2(caches[n].cell) > Radius2
  /\ \E n \in 1..Len(caches) : caches[n].shown /\ Distance2(caches[n].cell) <= Radius2

\* C14: while tracking is stopped (the script holds no watch id, after
\* stopLocationTracking from the toggle, a reset or a provider error, until
\* the next start) no step is a geolocation position callback: none changes
\* the position, the history, the caches or the stored document.
C14_NoCallbackAfterStop == [][locationWatcher = NULL => ~PositionCallback]_vars

\* Tracking was started, a position was delivered and applied, and tracking
\* is stopped again with the provider serving no watch.
C14_Witness ==
  /\ running
  /\ locationWatcher = NULL
  /\ watches = {}
  /\ moves = 1
  /\ <<playerLat, playerLng>> \in GeoPositions

\* C15: the error callback firing while tracking is active stops tracking
\* (no watch id held, no watch served) and leaves position, inventory,
\* caches, history and stored document as they were; and tracking starts
\* again only by a click on the geolocate button.
C15_ProviderErrorStopsTracking ==
  [][/\ (locationWatcher # NULL /\ ErrorCallback) =>
          /\ locationWatcher' = NULL
          /\ watches' = {}
          /\ UNCHANGED <<playerLat, playerLng, playerCoins, caches,
                         locationHistory, store>>
     /\ (locationWatcher = NULL /\ locationWatcher' # NULL) => GeolocateClick
    ]_vars

\* A provider error was logged during a game in progress (coins held, a
\* document stored) and tracking is off.
C15_Witness ==
  /\ locationErrorLogged
  /\ locationWatcher = NULL
  /\ watches = {}
  /\ playerCoins # <<>>
  /\ store # NULL

\* C16: resetGameState with the prompt declined changes neither position,
\* inventory, caches, movement history, stored document nor tracking; and
\* the stored document is removed only by a confirmed reset.
C16_ResetNeedsConfirmation ==
  [][/\ ResetDeclined =>
          UNCHANGED <<playerLat, playerLng, playerCoins, caches, locationHistory,
                      movementHistory, store, locationWatcher, watches>>
     /\ (store # NULL /\ store' = NULL) => ResetConfirmed
    ]_vars

\* A game in progress in which the reset button can be pressed and the
\* prompt declined: the player has moved, holds coins and is tracked.
C16_Witness ==
  /\ running
  /\ moves = 1
  /\ store # NULL
  /\ playerCoins # <<>>
  /\ movementHistory # NULL
  /\ locationWatcher # NULL

\* Positions to map: the player's, two more of the same tile, the ones the
\* geolocation provider reports.
MappedPositions ==
  { <<playerLat, playerLng>>,
    <<playerLat - (playerLat % TILE_DEGREES) + 1, playerLng - (playerLng % TILE_DEGREES) + 1>>,
    <<playerLat - (playerLat % TILE_DEGREES) + TILE_DEGREES - 1,
      playerLng - (playerLng % TILE_DEGREES) + TILE_DEGREES - 1>> } \cup GeoPositions

\* knownTiles after latLngToCell(lat, lng).
TilesAfter(tiles, p) == Register(tiles, {CellAt(p[1], p[2])})

\* The Cell under each key carries the key's i and j, and latLngToCell gives
\* positions of one tile one Cell, the same on a repeated call.
GridMapperStable ==
  /\ \A k \in DOMAIN knownTiles : Key(knownTiles[k]) = k
  /\ \A p, q \in MappedPositions :
       /\ latLngToCell(TilesAfter(knownTiles, p), p[1], p[2]) = latLngToCell(knownTiles, p[1], p[2])
       /\ Key(CellAt(p[1], p[2])) = Key(CellAt(q[1], q[2])) =>
            latLngToCell(TilesAfter(knownTiles, p), q[1], q[2]) = latLngToCell(knownTiles, p[1], p[2])

\* Every entry of knownTiles is in the table, unchanged, after the step.
TilesKept ==
  \A k \in DOMAIN knownTiles : k \in DOMAIN knownTiles' /\ knownTiles'[k] = knownTiles[k]

\* C17: latLngToCell returns one Cell for the positions of one tile, again
\* on every repeated call; knownTiles holds under each key the Cell with
\* that i and j; and no operation of the running page (moves, geolocation
\* updates, collect, deposit, reset) replaces or removes an entry.
C17_GridMapperStable ==
  /\ []GridMapperStable
  /\ [][knownTiles' = knownTiles \/ Reload \/ TilesKept]_vars

\* After a move and a confirmed reset the table still holds the cells
\* registered by the move, beside those of the initial neighbourhood.
C17_Witness ==
  /\ ~restored
  /\ moves = 1
  /\ locationHistory = <<>>
  /\ store = NULL
  /\ Cardinality(DOMAIN knownTiles) > Width * Width

\* The stored item is the document of the state after the step: position,
\* inventory, history, and one entry per cache of the table, in table
\* order, with the cache's corner and its coins.
StoredAfterStep ==
  /\ store' # NULL
  /\ JSONparses(store'[1])
  /\ LET doc == JSONparse(store'[1])
     IN  /\ doc.playerLat = playerLat' /\ doc.playerLng = playerLng'
         /\ doc.playerCoins = playerCoins'
         /\ doc.locationHistory = locationHistory'
         /\ Len(doc.caches) = Len(caches')
         /\ \A n \in 1..Len(caches') :
              /\ doc.caches[n].lat = caches'[n].cell.i * TILE_DEGREES
              /\ doc.caches[n].lng = caches'[n].cell.j * TILE_DEGREES
              /\ JSONparse(doc.caches[n].memento) = caches'[n].coins

CacheSet(cs) == {[cell |-> cs[n].cell, coins |-> cs[n].coins] : n \in 1..Len(cs)}

\* C19: between handlers, a page started against the current store has the
\* position, the inventory, the movement history and the caches (cells and
\* coin lists) of the running page: nothing done is unsaved.
C19_DurableAcrossReload ==
  running =>
    /\ Boot(store).running
    /\ Boot(store).playerLat = playerLat
    /\ Boot(store).playerLng = playerLng
    /\ Boot(store).playerCoins = playerCoins
    /\ Boot(store).locationHistory = locationHistory
    /\ CacheSet(Boot(store).caches) = CacheSet(caches)

\* The table after the step is the one the spawner makes for the initial
\* neighbourhood: a cache at each of its cells whose spawn hash is low, none
\* elsewhere, each with the coin list it is spawned with.
FreshCachesAfterStep ==
  /\ \A k \in InitialKeys : SpawnHashBelow(k) <=> CachesHas(caches', k)
  /\ \A n \in 1..Len(caches') :
       /\ Key(caches'[n].cell) \in InitialKeys
       /\ SpawnedCoins(caches'[n])

\* C20: a confirmed reset removes the stored document, puts the player at
\* the initial position, empties inventory and movement history, stops the
\* tracking, and leaves in the table exactly the caches spawned for the
\* initial neighbourhood with their hash-derived coins.
C20_ResetGivesFreshStart ==
  [][ResetConfirmed =>
       /\ store' = NULL
       /\ playerLat' = PLAYER_LAT /\ playerLng' = PLAYER_LNG
       /\ playerCoins' = <<>>
       /\ locationHistory' = <<>> /\ movementHistory' = NULL
       /\ locationWatcher' = NULL /\ watches' = {}
       /\ FreshCachesAfterStep]_vars

\* The game was reset after a geolocation update: no document, the initial
\* position, nothing held, and the cache the update had spawned outside the
\* initial neighbourhood is not in the table.
C20_Witness ==
  /\ running
  /\ moves = 1
  /\ store = NULL
  /\ playerLat = PLAYER_LAT /\ playerLng = PLAYER_LNG
  /\ playerCoins = <<>> /\ locationHistory = <<>>
  /\ locationWatcher = NULL
  /\ \E k \in orphanMarkers : k \notin InitialKeys /\ ~CachesHas(caches, k)
  /\ \A n \in 1..Len(caches) : caches[n].coins = GeneratedAt(n)

\* C21: every cache marker on the map is the marker of a cache of the
\* table: no marker of a cache dropped from the table is on the map.
C21_NoOrphanMarkers == orphanMarkers = {}

\* C22: between handlers the player marker shows the player's position.
C22_PlayerMarkerAtPlayer ==
  running => playerMarker = <<playerLat, playerLng>>

====
